---- MODULE Spec2Model ----
(***************************************************************************)
(* Order reconciliation: the status resolver of src/src/analysis.py, the   *)
(* settlement store of src/src/processors.py and src/src/models.py, and    *)
(* the monthly processing and rollup of src/src/processors.py.             *)
(*                                                                         *)
(* Money is counted in hundredths of a currency unit (900.00 is 90000), so *)
(* the 0.01 tolerance of the specification is the integer 1.               *)
(*                                                                         *)
(* A stored object is a record of the attributes the code has assigned to  *)
(* it.  process_settlements assigns order_release_id,                      *)
(* total_expected_settlement, total_actual_settlement,                     *)
(* amount_pending_settlement and status; update_settlement assigns         *)
(* amount_settled, amount_pending and settlement_status, so a settlement   *)
(* carries these three only once update_settlement has been applied to it. *)
(* A table is the sequence of its rows in insertion order.                 *)
(***************************************************************************)
EXTENDS Integers, Sequences, FiniteSets, TLC

VARIABLES
    order,              \* the order row handed to the resolver
    returns_df,         \* returns frame handed to the resolver
    settlement_df,      \* settlement frame handed to the resolver
    previous_analysis,  \* previous_analysis_df of analyze_orders
    now,                \* the clock datetime.now() reads
    results,            \* the resolver's results, one per call, in call order
    orders,             \* table orders
    returns,            \* table returns
    settlements,        \* table settlements
    history,            \* table settlement_history
    monthly_reconciliation, \* table monthly_reconciliation
    status_history,     \* table order_status_history
    scan_result,        \* what the last scan of the stored data returned
    master              \* the master files: orders, returns, settlement

resolverVars == <<order, returns_df, settlement_df, previous_analysis, now, results>>
otherVars == <<order, returns_df, settlement_df, previous_analysis, now, results,
               scan_result, master>>
storeVars == <<orders, returns, settlements, history, monthly_reconciliation,
               status_history, scan_result, master>>
vars == <<order, returns_df, settlement_df, previous_analysis, now, results,
          orders, returns, settlements, history, monthly_reconciliation,
          status_history, scan_result, master>>

----------------------------------------------------------------------------
(* Bounds *)

MaxReturnRows == 2
MaxSettlementRows == 2
MaxCalls == 2
MaxClock == 1
MaxBatch == 1
MaxStoredReturns == 1
MaxStoredSettlements == 1
MaxHistory == 2
MaxStatusHistory == 3

OrderIds == {"O1", "O2"}

\* None where a string is expected.
None == "None"

\* None where a timestamp is expected; a timestamp t is the one-element <<t>>.
NoTimestamp == <<>>

----------------------------------------------------------------------------
(* Helpers on frames *)

SeqsUpTo(S, n) == UNION {[1..k -> S] : k \in 0..n}

\* df[df['order_release_id'] == order_id]
FilterById(df, order_id) == SelectSeq(df, LAMBDA r : r.order_release_id = order_id)

\* df['total_actual_settlement'].sum()
RECURSIVE SumActual(_)
SumActual(df) ==
    IF df = <<>> THEN 0
    ELSE Head(df).total_actual_settlement + SumActual(Tail(df))

Abs(x) == IF x < 0 THEN -x ELSE x

----------------------------------------------------------------------------
(* Status resolver: src/src/analysis.py *)

\* 'is_ship_rel' in order and order['is_ship_rel'] == 0
IsCancelled(o) == "is_ship_rel" \in DOMAIN o /\ o.is_ship_rel = 0

ResolveStatus_ReturnsFirst(o, has_returns, has_settlement) ==
    IF has_returns THEN "Returned"
    ELSE IF IsCancelled(o) THEN "Cancelled"
    ELSE IF has_settlement THEN "Completed - Settled"
    ELSE "Completed - Pending Settlement"

ResolveStatus(o, has_returns, has_settlement) ==
    IF IsCancelled(o) THEN "Cancelled"
    ELSE IF has_returns THEN "Returned"
    ELSE IF has_settlement THEN "Completed - Settled"
    ELSE "Completed - Pending Settlement"

ResolveProfitLoss_PendingIsFinalAmount(o, has_returns, has_settlement, return_settlement, order_settlement) ==
    IF IsCancelled(o) THEN 0
    ELSE IF has_returns THEN order_settlement - return_settlement
    ELSE IF has_settlement THEN order_settlement
    ELSE o.final_amount

ResolveProfitLoss(o, has_returns, has_settlement, return_settlement, order_settlement) ==
    IF IsCancelled(o) THEN 0
    ELSE IF has_returns THEN order_settlement - return_settlement
    ELSE IF has_settlement THEN order_settlement
    ELSE 0

StatusChanged_NoNoneCheck(previous_status, status) ==
    previous_status # status

StatusChanged(previous_status, status) ==
    previous_status # None /\ previous_status # status

\* datetime.isoformat(): the text of an instant, a different text for a
\* different instant.
IsoFormat(t) == <<"T", t>>

determine_order_status_and_financials(o, rdf, sdf, previous_status, clock) ==
    LET order_id == o.order_release_id
        order_returns == FilterById(rdf, order_id)
        has_returns == order_returns # <<>>
        order_settlement_data == FilterById(sdf, order_id)
        has_settlement == order_settlement_data # <<>>
        return_settlement ==
            IF ~IsCancelled(o) /\ has_returns THEN SumActual(order_returns) ELSE 0
        order_settlement ==
            IF ~IsCancelled(o) /\ has_settlement THEN SumActual(order_settlement_data) ELSE 0
        status == ResolveStatus(o, has_returns, has_settlement)
        profit_loss == ResolveProfitLoss(o, has_returns, has_settlement,
                                         return_settlement, order_settlement)
        status_changed == StatusChanged(previous_status, status)
    IN  [status |-> status,
         profit_loss |-> profit_loss,
         return_settlement |-> return_settlement,
         order_settlement |-> order_settlement,
         status_changed_this_run |-> status_changed,
         settlement_update_run_timestamp |->
             IF status_changed THEN IsoFormat(clock) ELSE NoTimestamp]

\* previous_status_map.get(order_release_id) of analyze_orders.  An optional
\* frame is a sequence of at most one frame: <<>> is None.  dict(zip(...))
\* keeps the last row of an id; get gives None for an id without a row.
PreviousStatus(prev, order_id) ==
    IF prev = <<>> THEN None
    ELSE LET rows == FilterById(prev[1], order_id)
         IN  IF rows = <<>> THEN None ELSE rows[Len(rows)].status

----------------------------------------------------------------------------
(* Inputs of the resolver *)

Statuses == {"Cancelled", "Returned", "Completed - Settled",
             "Completed - Pending Settlement"}

FinalAmounts == {0, 100000}
ReturnAmounts == {-20000, 20000}
SettledAmounts == {30000}

\* The order under analysis; an orders frame may lack the column is_ship_rel.
OrderRows ==
    [order_release_id : {"O1"}, final_amount : FinalAmounts, is_ship_rel : {0, 1}]
    \cup [order_release_id : {"O1"}, final_amount : FinalAmounts]

ReturnRows == [order_release_id : OrderIds, total_actual_settlement : ReturnAmounts]
SettlementRows == [order_release_id : OrderIds, total_actual_settlement : SettledAmounts]

\* No previous analysis, or a previous analysis frame of at most one row.
PreviousAnalyses ==
    {<<>>} \cup {<<f>> : f \in SeqsUpTo([order_release_id : OrderIds, status : Statuses], 1)}

EmptyStore ==
    /\ orders = <<>>
    /\ returns = <<>>
    /\ settlements = <<>>
    /\ history = <<>>
    /\ monthly_reconciliation = <<>>
    /\ status_history = <<>>
    /\ scan_result = [kind |-> "none"]
    /\ master = [orders |-> <<>>, returns |-> <<>>, settlement |-> <<>>]

InitResolver ==
    /\ order \in OrderRows
    /\ returns_df \in SeqsUpTo(ReturnRows, MaxReturnRows)
    /\ settlement_df \in SeqsUpTo(SettlementRows, MaxSettlementRows)
    /\ previous_analysis \in PreviousAnalyses
    /\ now = 0
    /\ results = <<>>
    /\ EmptyStore

\* One evaluation of the order by analyze_orders at the current clock reading.
Resolve ==
    /\ Len(results) < MaxCalls
    /\ results' = Append(results,
           determine_order_status_and_financials(
               order, returns_df, settlement_df,
               PreviousStatus(previous_analysis, order.order_release_id), now))
    /\ UNCHANGED <<order, returns_df, settlement_df, previous_analysis, now, storeVars>>

\* Time passes between two evaluations.
Tick ==
    /\ now < MaxClock
    /\ now' = now + 1
    /\ UNCHANGED <<order, returns_df, settlement_df, previous_analysis, results, storeVars>>

NextResolver == Resolve \/ Tick

SpecResolver == InitResolver /\ [][NextResolver]_vars

----------------------------------------------------------------------------
(* Settlement store: src/src/processors.py and src/src/models.py *)

\* db.query(Order).filter(Order.order_release_id == id).first() is not None
OrderExists(tbl, order_id) == \E i \in DOMAIN tbl : tbl[i].order_release_id = order_id

\* Index of the row .first() returns: the oldest row with that id, 0 for None.
FirstIndex(tbl, order_id) ==
    IF OrderExists(tbl, order_id)
    THEN CHOOSE i \in DOMAIN tbl :
            /\ tbl[i].order_release_id = order_id
            /\ \A j \in DOMAIN tbl : tbl[j].order_release_id = order_id => i <= j
    ELSE 0

\* The three-way status of a settlement row as process_settlements computes it.
SettlementStatus(total_actual, amount_pending) ==
    IF amount_pending = 0 THEN "settled"
    ELSE IF total_actual > 0 THEN "partial"
    ELSE "pending"

\* Settlement(...) built from a feed row: the attributes the constructor sets.
NewSettlement(row) ==
    [order_release_id |-> row.order_release_id,
     total_expected_settlement |-> row.total_expected_settlement,
     total_actual_settlement |-> row.total_actual_settlement,
     amount_pending_settlement |-> row.amount_pending_settlement,
     status |-> SettlementStatus(row.total_actual_settlement,
                                 row.amount_pending_settlement)]

\* setattr(existing, key, value) for every attribute of the new object: the
\* attributes the constructor set are overwritten, any other attribute of
\* the existing object stays.
Overwrite(existing, new) == new @@ existing

\* The loop of process_settlements over the rows of df.  tbl is the table as
\* the session sees it (in-place updates included), new the objects created
\* and not yet added to the session, warnings the warnings logged.  A row
\* whose order is not stored, or whose order has no stored return, is skipped
\* with a warning that names its order_release_id.
RECURSIVE ProcessSettlementRows_StopAtOrphan(_, _, _, _, _, _)
ProcessSettlementRows_StopAtOrphan(df, ords, rets, tbl, new, warnings) ==
    IF df = <<>> THEN [tbl |-> tbl, new |-> new, warnings |-> warnings]
    ELSE
        LET row == Head(df)
            id == row.order_release_id
        IN  IF ~OrderExists(ords, id)
            THEN [tbl |-> tbl, new |-> new,
                  warnings |-> Append(warnings, <<"Order not found for settlement", id>>)]
            ELSE IF ~OrderExists(rets, id)
            THEN ProcessSettlementRows_StopAtOrphan(Tail(df), ords, rets, tbl, new,
                     Append(warnings, <<"Return not found for settlement", id>>))
            ELSE IF OrderExists(tbl, id)
            THEN ProcessSettlementRows_StopAtOrphan(Tail(df), ords, rets,
                     [tbl EXCEPT ![FirstIndex(tbl, id)] = Overwrite(@, NewSettlement(row))],
                     new, warnings)
            ELSE ProcessSettlementRows_StopAtOrphan(Tail(df), ords, rets, tbl,
                     Append(new, NewSettlement(row)), warnings)

RECURSIVE ProcessSettlementRows(_, _, _, _, _, _)
ProcessSettlementRows(df, ords, rets, tbl, new, warnings) ==
    IF df = <<>> THEN [tbl |-> tbl, new |-> new, warnings |-> warnings]
    ELSE
        LET row == Head(df)
            id == row.order_release_id
        IN  IF ~OrderExists(ords, id)
            THEN ProcessSettlementRows(Tail(df), ords, rets, tbl, new,
                     Append(warnings, <<"Order not found for settlement", id>>))
            ELSE IF ~OrderExists(rets, id)
            THEN ProcessSettlementRows(Tail(df), ords, rets, tbl, new,
                     Append(warnings, <<"Return not found for settlement", id>>))
            ELSE IF OrderExists(tbl, id)
            THEN ProcessSettlementRows(Tail(df), ords, rets,
                     [tbl EXCEPT ![FirstIndex(tbl, id)] = Overwrite(@, NewSettlement(row))],
                     new, warnings)
            ELSE ProcessSettlementRows(Tail(df), ords, rets, tbl,
                     Append(new, NewSettlement(row)), warnings)

\* The objects of a list after add_all and commit: the column default
\* datetime.utcnow gives each its created_at.
Inserted(objs, clock) == [i \in DOMAIN objs |-> [created_at |-> clock] @@ objs[i]]

\* Settlement.update_settlement(amount_settled, status) on the object s whose
\* order is o: the attributes it assigns.
update_settlement_PendingFromExpected(s, o, amount_settled, status) ==
    [amount_settled |-> amount_settled,
     amount_pending |-> s.total_expected_settlement - amount_settled,
     settlement_status |-> status] @@ s

update_settlement(s, o, amount_settled, status) ==
    [amount_settled |-> amount_settled,
     amount_pending |-> o.final_amount - amount_settled,
     settlement_status |-> status] @@ s

\* The attribute month of a Settlement or SettlementHistory object, <<>> for
\* NULL: process_settlements does not assign it, update_settlement copies it.
MonthOf(s) == IF "month" \in DOMAIN s THEN s.month ELSE <<>>

\* The SettlementHistory row update_settlement appends.
HistoryEntry(s) ==
    [order_release_id |-> s.order_release_id,
     settlement_status |-> s.settlement_status,
     amount_settled |-> s.amount_settled,
     amount_pending |-> s.amount_pending,
     month |-> MonthOf(s)]

----------------------------------------------------------------------------
(* Feeds *)

OrderFeedRows == [order_release_id : OrderIds, final_amount : {100000}]

ReturnFeedRows == [order_release_id : OrderIds, total_actual_settlement : {-20000}]

\* expected, settled, pending of a settlement feed row: settled in full,
\* nothing settled, and a row whose amounts do not add up.
FeedAmounts == {<<90000, 90000, 0>>, <<90000, 0, 90000>>, <<100000, 50000, 60000>>}

SettlementFeedRows ==
    {[order_release_id |-> id,
      total_expected_settlement |-> a[1],
      total_actual_settlement |-> a[2],
      amount_pending_settlement |-> a[3]] : id \in OrderIds, a \in FeedAmounts}

\* The calls of update_settlement: a part of the amount with status partial,
\* and more than the order's amount with status completed.
UpdateCalls == {<<50000, "partial">>, <<120000, "completed">>}

Batches(rows) == SeqsUpTo(rows, MaxBatch) \ {<<>>}

OrderBatches == Batches(OrderFeedRows)
ReturnBatches == Batches(ReturnFeedRows)
SettlementBatches == Batches(SettlementFeedRows)

----------------------------------------------------------------------------
(* Operations on the store *)

IdleResolver ==
    /\ order = [order_release_id |-> "O1", final_amount |-> 0, is_ship_rel |-> 1]
    /\ returns_df = <<>>
    /\ settlement_df = <<>>
    /\ previous_analysis = <<>>
    /\ now = 0
    /\ results = <<>>

Init == IdleResolver /\ EmptyStore

\* ids of df that are already stored or occur twice in df
Duplicates(tbl, df) ==
    \/ \E i \in DOMAIN df : OrderExists(tbl, df[i].order_release_id)
    \/ \E i, j \in DOMAIN df : i # j /\ df[i].order_release_id = df[j].order_release_id

\* process_files, orders stage: process_orders, add_all, commit.  The unique
\* order_release_id makes the commit of a duplicate fail; process_files then
\* rolls the session back and raises, and no order of the batch is stored.
\* The table orders after the stage.
OrdersStage(df, ords) == IF Duplicates(ords, df) THEN ords ELSE ords \o df

AddOrders(df) ==
    /\ orders' = OrdersStage(df, orders)
    /\ UNCHANGED <<returns, settlements, history, monthly_reconciliation, status_history, otherVars>>

\* The loop of process_returns: a row without its order is skipped with a
\* warning.
RECURSIVE ProcessReturnRows(_, _, _)
ProcessReturnRows(df, ords, new) ==
    IF df = <<>> THEN new
    ELSE IF ~OrderExists(ords, Head(df).order_release_id)
    THEN ProcessReturnRows(Tail(df), ords, new)
    ELSE ProcessReturnRows(Tail(df), ords, Append(new, Head(df)))

\* process_files, returns stage: process_returns, add_all, commit.  The
\* table returns after the stage.
ReturnsStage(df, ords, tbl) == tbl \o ProcessReturnRows(df, ords, <<>>)

AddReturns(df) ==
    LET after == ReturnsStage(df, orders, returns)
    IN  /\ Len(after) <= MaxStoredReturns
        /\ returns' = after
        /\ UNCHANGED <<orders, settlements, history, monthly_reconciliation, status_history, otherVars>>

\* process_files, settlements stage: process_settlements, add_all, commit.
\* The tables settlements and settlement_history after it, and the warnings
\* it logged; the stage creates no SettlementHistory object.
SettlementsStage(df, ords, rets, tbl, hist, clock) ==
    LET r == ProcessSettlementRows(df, ords, rets, tbl, <<>>, <<>>)
    IN  [settlements |-> r.tbl \o Inserted(r.new, clock),
         history |-> hist,
         warnings |-> r.warnings]

AddSettlements(df) ==
    LET r == SettlementsStage(df, orders, returns, settlements, history, now)
    IN  /\ Len(r.settlements) <= MaxStoredSettlements
        /\ settlements' = r.settlements
        /\ history' = r.history
        /\ UNCHANGED <<orders, returns, monthly_reconciliation, status_history, otherVars>>

\* A caller applies update_settlement to the stored settlement i and commits.
UpdateSettlement(i, amount_settled, status) ==
    /\ i \in DOMAIN settlements
    /\ Len(history) < MaxHistory
    /\ LET s == settlements[i]
           o == orders[FirstIndex(orders, s.order_release_id)]
           u == update_settlement(s, o, amount_settled, status)
       IN  /\ settlements' = [settlements EXCEPT ![i] = u]
           /\ history' = Append(history, HistoryEntry(u))
    /\ UNCHANGED <<orders, returns, monthly_reconciliation, status_history, otherVars>>

Next ==
    \/ \E df \in OrderBatches : AddOrders(df)
    \/ \E df \in ReturnBatches : AddReturns(df)
    \/ \E df \in SettlementBatches : AddSettlements(df)
    \/ \E i \in 1..MaxStoredSettlements, c \in UpdateCalls :
           UpdateSettlement(i, c[1], c[2])

Spec == Init /\ [][Next]_vars

----------------------------------------------------------------------------
(* Deletion of stored records: DatabaseOperation.safe_delete of            *)
(* src/src/rollback.py, for any mapped class and the id of a row.          *)

RemoveAt(tbl, i) == SubSeq(tbl, 1, i - 1) \o SubSeq(tbl, i + 1, Len(tbl))

\* Settlement.history has cascade "all, delete-orphan": session.delete of a
\* Settlement deletes the SettlementHistory entries it is related to.  The
\* two tables share the column order_release_id.
HistoryWithout(hist, id) ==
    SelectSeq(hist, LAMBDA h : h.order_release_id # id)

\* session.delete of an Order sets the order_release_id of its loaded
\* returns and settlements to NULL; the column is not nullable, the flush
\* fails and safe_delete rolls back and raises.  An Order without returns
\* and settlements is deleted, and ON DELETE CASCADE on
\* settlement_history.order_release_id removes its history entries.
HasChildren(rets, tbl, id) ==
    \/ \E j \in DOMAIN rets : rets[j].order_release_id = id
    \/ \E j \in DOMAIN tbl : tbl[j].order_release_id = id

SafeDelete(model, i) ==
    /\ \/ /\ model = "Settlement"
          /\ i \in DOMAIN settlements
          /\ settlements' = RemoveAt(settlements, i)
          /\ history' = HistoryWithout(history, settlements[i].order_release_id)
          /\ UNCHANGED orders
       \/ /\ model = "SettlementHistory"
          /\ i \in DOMAIN history
          /\ history' = RemoveAt(history, i)
          /\ UNCHANGED <<orders, settlements>>
       \/ /\ model = "Order"
          /\ i \in DOMAIN orders
          /\ ~HasChildren(returns, settlements, orders[i].order_release_id)
          /\ orders' = RemoveAt(orders, i)
          /\ history' = HistoryWithout(history, orders[i].order_release_id)
          /\ UNCHANGED settlements
    /\ UNCHANGED <<returns, monthly_reconciliation, status_history, otherVars>>

Models == {"Order", "Settlement", "SettlementHistory"}

NextDelete ==
    \/ Next
    \/ \E model \in Models, i \in 1..MaxHistory : SafeDelete(model, i)

SpecDelete == Init /\ [][NextDelete]_vars

----------------------------------------------------------------------------
(* Monthly processing: process_files with a month, the monthly rollup and *)
(* the settlement analysis of src/src/processors.py.  A month is a number, *)
(* the clock now reads the current month.                                  *)

Months == {0, 1}

\* df[df[col].dt.to_period('M') == month.to_period('M')], and the database
\* filter first of the month <= col < first of the next month.
InMonth(df, col, month) == SelectSeq(df, LAMBDA r : r[col] = month)

\* sum(s.amount_pending_settlement for s in settlements)
RECURSIVE SumPending(_)
SumPending(df) ==
    IF df = <<>> THEN 0
    ELSE Head(df).amount_pending_settlement + SumPending(Tail(df))

\* The filter of the rollup on Settlement.created_at.
CreatedIn_UpTo(s, month) == s.created_at <= month

CreatedIn(s, month) == s.created_at = month

calculate_monthly_reconciliation(ords, rets, tbl, month) ==
    LET month_orders == InMonth(ords, "created_on", month)
        month_returns == InMonth(rets, "return_date", month)
        month_settlements == SelectSeq(tbl, LAMBDA s : CreatedIn(s, month))
        total_settlements ==
            SumActual(SelectSeq(month_settlements,
                                LAMBDA s : s.total_actual_settlement > 0))
        return_losses ==
            Abs(SumActual(SelectSeq(month_settlements,
                                    LAMBDA s : s.total_actual_settlement < 0)))
    IN  [month |-> month,
         total_orders |-> Len(month_orders),
         total_returns |-> Len(month_returns),
         total_settlements |-> total_settlements,
         pending_settlements |-> SumPending(month_settlements),
         completed_settlements |->
             SumActual(SelectSeq(month_settlements, LAMBDA s : s.status = "settled")),
         return_losses |-> return_losses,
         net_profit |-> total_settlements - return_losses]

\* analyze_settlements: the settlements of the month, by Settlement.month.
AnalysisSettlements(tbl, month) == SelectSeq(tbl, LAMBDA s : MonthOf(s) = <<month>>)

\* get_settlement_trends: the history rows grouped under the month.
TrendRows(hist, month) == SelectSeq(hist, LAMBDA h : MonthOf(h) = <<month>>)

\* The database as a record of its tables.
DB ==
    [orders |-> orders, returns |-> returns, settlements |-> settlements,
     history |-> history, monthly_reconciliation |-> monthly_reconciliation]

\* MonthlyReconciliation.month is unique.
HasMonth(tbl, month) == \E i \in DOMAIN tbl : tbl[i].month = month

\* process_files with a month: the frames of the three files are filtered to the month,
\* each stage is committed, the rollup of the month is computed, added and
\* committed.  A commit that fails (an order id stored already, a rollup
\* row of the month stored already) is rolled back and the exception is
\* raised again: the stages committed before stay, nothing later runs.
\* The database after the call.
process_files(db, orders_file, returns_file, settlements_file, month, clock) ==
    LET odf == InMonth(orders_file, "created_on", month)
        rdf == InMonth(returns_file, "return_date", month)
        sdf == InMonth(settlements_file, "created_at", month)
    IN  IF Duplicates(db.orders, odf) THEN db
        ELSE
            LET ords == OrdersStage(odf, db.orders)
                rets == ReturnsStage(rdf, ords, db.returns)
                st == SettlementsStage(sdf, ords, rets, db.settlements, db.history, clock)
                rollup == calculate_monthly_reconciliation(ords, rets, st.settlements, month)
            IN  [orders |-> ords,
                 returns |-> rets,
                 settlements |-> st.settlements,
                 history |-> st.history,
                 monthly_reconciliation |->
                     IF HasMonth(db.monthly_reconciliation, month)
                     THEN db.monthly_reconciliation
                     ELSE Append(db.monthly_reconciliation, rollup)]

\* The commits of process_files, in order; a fault is the commit that
\* raises for a cause outside the data (the connection), "none" for a run
\* without such a fault.
Faults == {"none", "orders", "returns", "settlements", "rollup"}

\* One call of process_files: the database after the call and whether the
\* call raised.  Every commit before the one that raises stays.
process_files_attempt(db, orders_file, returns_file, settlements_file, month, clock, fault) ==
    LET odf == InMonth(orders_file, "created_on", month)
        rdf == InMonth(returns_file, "return_date", month)
        sdf == InMonth(settlements_file, "created_at", month)
    IN  IF Duplicates(db.orders, odf) \/ fault = "orders"
        THEN [db |-> db, raised |-> TRUE]
        ELSE
            LET ords == OrdersStage(odf, db.orders)
                rets == ReturnsStage(rdf, ords, db.returns)
                st == SettlementsStage(sdf, ords, rets, db.settlements, db.history, clock)
                rollup == calculate_monthly_reconciliation(ords, rets, st.settlements, month)
                db1 == [db EXCEPT !.orders = ords]
                db2 == [db1 EXCEPT !.returns = rets]
                db3 == [db2 EXCEPT !.settlements = st.settlements,
                                   !.history = st.history]
            IN  IF fault = "returns" THEN [db |-> db1, raised |-> TRUE]
                ELSE IF fault = "settlements" THEN [db |-> db2, raised |-> TRUE]
                ELSE IF fault = "rollup" \/ HasMonth(db.monthly_reconciliation, month)
                THEN [db |-> db3, raised |-> TRUE]
                ELSE [db |-> [db3 EXCEPT !.monthly_reconciliation =
                                      Append(db.monthly_reconciliation, rollup)],
                      raised |-> FALSE]

\* The monthly feeds of one order: every row carries the date column its
\* frame is filtered by.
MonthlyOrderRows ==
    [order_release_id : {"O1"}, final_amount : {100000}, created_on : Months]

MonthlyReturnRows ==
    [order_release_id : {"O1"}, total_actual_settlement : {-20000},
     return_date : Months]

\* expected, settled, pending: nothing settled, settled in full, and a
\* negative settlement.
MonthlyFeedAmounts == {<<90000, 0, 90000>>, <<90000, 90000, 0>>, <<-20000, -20000, 0>>}

MonthlySettlementRows ==
    {[order_release_id |-> id,
      total_expected_settlement |-> a[1],
      total_actual_settlement |-> a[2],
      amount_pending_settlement |-> a[3],
      created_at |-> m] : id \in {"O1"}, a \in MonthlyFeedAmounts, m \in Months}

\* A file of the monthly run: no row or one row.
MonthlyFiles(rows) == {<<>>} \cup {<<r>> : r \in rows}

MonthlyOrderFiles == MonthlyFiles(MonthlyOrderRows)
MonthlyReturnFiles == MonthlyFiles(MonthlyReturnRows)
MonthlySettlementFiles == MonthlyFiles(MonthlySettlementRows)

\* The calls of update_settlement in a month: nothing settled yet.
MonthlyUpdateCalls == {<<0, "pending">>}

ProcessFiles(orders_file, returns_file, settlements_file, month) ==
    LET after == process_files(DB, orders_file, returns_file, settlements_file, month, now)
    IN  /\ Len(after.returns) <= MaxStoredReturns
        /\ Len(after.settlements) <= MaxStoredSettlements
        /\ orders' = after.orders
        /\ returns' = after.returns
        /\ settlements' = after.settlements
        /\ history' = after.history
        /\ monthly_reconciliation' = after.monthly_reconciliation
        /\ UNCHANGED <<status_history, otherVars>>

NextMonthly ==
    \/ \E odf \in MonthlyOrderFiles, rdf \in MonthlyReturnFiles,
          sdf \in MonthlySettlementFiles, month \in Months :
           ProcessFiles(odf, rdf, sdf, month)
    \/ \E i \in 1..MaxStoredSettlements, c \in MonthlyUpdateCalls :
           UpdateSettlement(i, c[1], c[2])
    \/ Tick

SpecMonthly == Init /\ [][NextMonthly]_vars

----------------------------------------------------------------------------
(* Database import: src/src/data_import/file_processor.py and              *)
(* src/src/data_import/db_operations.py, on the tables of                  *)
(* src/src/database/models.py.  A row of a file carries a defect: "none",  *)
(* "field" for a required column without a value (the INSERT statement of  *)
(* the row fails), "date" for a date column that pd.to_datetime cannot     *)
(* parse (the conversion raises while the row's values are collected).     *)
(* The session that get_db yields is taken as an open session, and the     *)
(* ON CONFLICT clause as naming a key of the table.                        *)

\* INSERT ... ON CONFLICT (key) DO UPDATE SET ...: the row replaces the
\* stored row of its key, or is appended.
\* index_elements: order_release_id for orders, order_release_id and
\* order_line_id for returns and settlements.
SameKey(table, a, b) ==
    /\ a.order_release_id = b.order_release_id
    /\ table # "orders" => a.order_line_id = b.order_line_id

Upsert(table, tbl, data) ==
    IF \E j \in DOMAIN tbl : SameKey(table, tbl[j], data)
    THEN [j \in DOMAIN tbl |-> IF SameKey(table, tbl[j], data) THEN data ELSE tbl[j]]
    ELSE Append(tbl, data)

\* order_data, return_data, settlement_data: the values of the statement.
OrderData(row) ==
    [order_release_id |-> row.order_release_id, is_ship_rel |-> row.is_ship_rel]

ReturnData(row) ==
    [order_release_id |-> row.order_release_id,
     order_line_id |-> row.order_line_id,
     total_actual_settlement |-> row.total_actual_settlement]

SettlementData(row) ==
    [order_release_id |-> row.order_release_id,
     order_line_id |-> row.order_line_id,
     return_type |-> row.return_type,
     total_actual_settlement |-> row.total_actual_settlement]

RowData(table, row) ==
    CASE table = "orders" -> OrderData(row)
      [] table = "returns" -> ReturnData(row)
      [] table = "settlements" -> SettlementData(row)

\* The loop of an upsert function.  committed is the table as committed,
\* working the table as the open transaction sees it, processed the
\* processed_ids.  A statement that fails is caught: session.rollback()
\* ends the transaction, and with it every statement executed since the
\* last commit, and the loop continues.  A conversion that raises is not
\* caught: the function ends without a commit.  After the loop the
\* transaction is committed.
RECURSIVE UpsertRows(_, _, _, _, _, _)
UpsertRows(table, df, parents, committed, working, processed) ==
    IF df = <<>>
    THEN [tbl |-> working, processed |-> processed, raised |-> FALSE]
    ELSE
        LET row == Head(df)
        IN  IF ~OrderExists(parents, row.order_release_id)
            THEN UpsertRows(table, Tail(df), parents, committed, working, processed)
            ELSE IF row.defect = "date"
            THEN [tbl |-> committed, processed |-> processed, raised |-> TRUE]
            ELSE IF row.defect = "field"
            THEN UpsertRows(table, Tail(df), parents, committed, committed, processed)
            ELSE UpsertRows(table, Tail(df), parents, committed,
                            Upsert(table, working, RowData(table, row)),
                            Append(processed, RowData(table, row)))

\* upsert_orders has no parent lookup: every row is its own parent.
upsert_orders(df, tbl) ==
    UpsertRows("orders", df, df, tbl, tbl, <<>>)

\* upsert_returns and upsert_settlements skip a row whose Order is not found.
upsert_returns(df, ords, tbl) ==
    UpsertRows("returns", df, ords, tbl, tbl, <<>>)

upsert_settlements(df, ords, tbl) ==
    UpsertRows("settlements", df, ords, tbl, tbl, <<>>)

\* update_order_status for every row of a file, in file order: a status
\* history entry is added and committed when the order is stored.
ImportStatus(table, row) ==
    CASE table = "orders" ->
             IF row.is_ship_rel = 0 THEN "Cancelled" ELSE "Pending"
      [] table = "returns" -> "Returned"
      [] table = "settlements" ->
             IF row.return_type # None THEN "Returned - Settled"
             ELSE "Completed - Settled"

RECURSIVE UpdateStatuses(_, _, _, _)
UpdateStatuses(table, df, ords, hist) ==
    IF df = <<>> THEN hist
    ELSE UpdateStatuses(table, Tail(df), ords,
             IF OrderExists(ords, Head(df).order_release_id)
             THEN Append(hist, [order_release_id |-> Head(df).order_release_id,
                                status |-> ImportStatus(table, Head(df))])
             ELSE hist)

\* The rows of the files.
ImportOrderRows ==
    [order_release_id : OrderIds, is_ship_rel : {0, 1}, defect : {"none"}]
    \cup [order_release_id : {"O2"}, is_ship_rel : {1}, defect : {"field", "date"}]

ImportReturnRows ==
    [order_release_id : OrderIds, order_line_id : {"L1"},
     total_actual_settlement : {-20000, -30000}, defect : {"none"}]
    \cup [order_release_id : {"O1"}, order_line_id : {"L2"},
          total_actual_settlement : {-20000}, defect : {"none", "field"}]

ImportSettlementRows ==
    [order_release_id : {"O1"}, order_line_id : {"L1"}, return_type : {None, "refund"},
     total_actual_settlement : {30000}, defect : {"none"}]
    \cup [order_release_id : {"O1"}, order_line_id : {"L2"}, return_type : {None},
          total_actual_settlement : {30000}, defect : {"field"}]

\* A file of the import: one row or two rows.
ImportFiles(rows) == {<<r>> : r \in rows} \cup {<<r1, r2>> : r1 \in rows, r2 \in rows}

ImportOrderFiles == ImportFiles(ImportOrderRows)
ImportReturnFiles == ImportFiles(ImportReturnRows)
ImportSettlementFiles == ImportFiles(ImportSettlementRows)

\* process_orders_file: upsert_orders, then the status of every row.  An
\* exception of upsert_orders is caught and the function returns False.
ImportOrdersFile(df) ==
    LET r == upsert_orders(df, orders)
        hist == IF r.raised THEN status_history
                ELSE UpdateStatuses("orders", df, r.tbl, status_history)
    IN  /\ Len(hist) <= MaxStatusHistory
        /\ orders' = r.tbl
        /\ status_history' = hist
        /\ UNCHANGED <<returns, settlements, history, monthly_reconciliation, otherVars>>

\* process_returns_file
ImportReturnsFile(df) ==
    LET r == upsert_returns(df, orders, returns)
        hist == IF r.raised THEN status_history
                ELSE UpdateStatuses("returns", df, orders, status_history)
    IN  /\ Len(hist) <= MaxStatusHistory
        /\ returns' = r.tbl
        /\ status_history' = hist
        /\ UNCHANGED <<orders, settlements, history, monthly_reconciliation, otherVars>>

\* process_settlement_file
ImportSettlementFile(df) ==
    LET r == upsert_settlements(df, orders, settlements)
        hist == IF r.raised THEN status_history
                ELSE UpdateStatuses("settlements", df, orders, status_history)
    IN  /\ Len(hist) <= MaxStatusHistory
        /\ settlements' = r.tbl
        /\ status_history' = hist
        /\ UNCHANGED <<orders, returns, history, monthly_reconciliation, otherVars>>

NextImport ==
    \/ \E df \in ImportOrderFiles : ImportOrdersFile(df)
    \/ \E df \in ImportReturnFiles : ImportReturnsFile(df)
    \/ \E df \in ImportSettlementFiles : ImportSettlementFile(df)

SpecImport == Init /\ [][NextImport]_vars

----------------------------------------------------------------------------
(* Scans of the stored data: RealTimeReporter.check_data_consistency of    *)
(* src/src/reporting.py and identify_anomalies of                          *)
(* src/src/analysis/core.py.  Both read the tables with queries and change *)
(* nothing.  The rows carry no dates: the findings that compare dates      *)
(* (invalid_return_dates, delayed_settlements) are left out.               *)

MaxScanReturns == 4

\* SELECT r.order_release_id ... FROM returns r LEFT JOIN orders o ...
\* WHERE o.order_release_id IS NULL
OrphanedReturns(ords, rets) ==
    SelectSeq(rets, LAMBDA r : ~OrderExists(ords, r.order_release_id))

\* WHERE s.total_expected_settlement !=
\*       (s.total_actual_settlement + s.amount_pending_settlement)
SettlementMismatches(tbl) ==
    SelectSeq(tbl, LAMBDA s : s.total_expected_settlement
                              # s.total_actual_settlement + s.amount_pending_settlement)

\* One issue of the list, when the query returned rows.
Issue(type, rows) ==
    IF rows = <<>> THEN <<>>
    ELSE <<[type |-> type, count |-> Len(rows), details |-> rows]>>

check_data_consistency(ords, rets, tbl) ==
    Issue("orphaned_returns",
          LET rows == OrphanedReturns(ords, rets)
          IN  [i \in DOMAIN rows |-> [order_release_id |-> rows[i].order_release_id]])
    \o Issue("settlement_mismatch", SettlementMismatches(tbl))

RECURSIVE SumPaid(_)
SumPaid(rets) ==
    IF rets = <<>> THEN 0
    ELSE Head(rets).customer_paid_amount + SumPaid(Tail(rets))

\* avg_return = avg(Return.customer_paid_amount) or 0, and the returns with
\* customer_paid_amount > avg_return * 2.  The average of a Numeric column
\* is exact: amount > 2 * total / n is compared as n * amount > 2 * total.
HighValueReturns_AboveMean(rets) ==
    SelectSeq(rets, LAMBDA r :
        IF rets = <<>> THEN r.customer_paid_amount > 0
        ELSE Len(rets) * r.customer_paid_amount > SumPaid(rets))

HighValueReturns(rets) ==
    SelectSeq(rets, LAMBDA r :
        IF rets = <<>> THEN r.customer_paid_amount > 0
        ELSE Len(rets) * r.customer_paid_amount > 2 * SumPaid(rets))

NegativeSettlements(tbl) ==
    SelectSeq(tbl, LAMBDA s : s.total_actual_settlement < 0 /\ s.return_type = None)

\* GROUP BY order HAVING count(Return.id) > 1
MultipleReturns(rets) ==
    {[order_id |-> id,
      return_count |-> Cardinality({i \in DOMAIN rets : rets[i].order_release_id = id})] :
        id \in {rets[i].order_release_id : i \in
                   {k \in DOMAIN rets :
                       \E m \in DOMAIN rets : m # k /\ rets[m].order_release_id
                                                      = rets[k].order_release_id}}}

identify_anomalies(rets, tbl) ==
    [negative_settlements |->
         LET rows == NegativeSettlements(tbl)
         IN  [i \in DOMAIN rows |-> [order_id |-> rows[i].order_release_id,
                                     amount |-> rows[i].total_actual_settlement]],
     high_value_returns |->
         LET rows == HighValueReturns(rets)
         IN  [i \in DOMAIN rows |-> [order_id |-> rows[i].order_release_id,
                                     amount |-> rows[i].customer_paid_amount]],
     multiple_returns |-> MultipleReturns(rets)]

\* The stored data the scans are applied to.
ScanOrders == {<<>>, <<[order_release_id |-> "O1"]>>}

ScanReturnRows ==
    {[order_release_id |-> "O1", customer_paid_amount |-> 10000],
     [order_release_id |-> "O1", customer_paid_amount |-> 100000],
     [order_release_id |-> "O2", customer_paid_amount |-> 10000]}

\* expected, settled, pending: consistent, one hundredth apart, and 500 and
\* 600 against 1000.
ScanAmounts == {<<90000, 90000, 0>>, <<90000, 45000, 45001>>, <<100000, 50000, 60000>>}

ScanSettlementRows ==
    {[order_release_id |-> id,
      return_type |-> None,
      total_expected_settlement |-> a[1],
      total_actual_settlement |-> a[2],
      amount_pending_settlement |-> a[3]] : id \in OrderIds, a \in ScanAmounts}

InitScan ==
    /\ IdleResolver
    /\ orders \in ScanOrders
    /\ returns = <<>>
    /\ settlements \in SeqsUpTo(ScanSettlementRows, 1)
    /\ history = <<>>
    /\ monthly_reconciliation = <<>>
    /\ status_history = <<>>
    /\ scan_result = [kind |-> "none"]
    /\ master = [orders |-> <<>>, returns |-> <<>>, settlement |-> <<>>]

\* A return is stored.
StoreReturn(row) ==
    /\ Len(returns) < MaxScanReturns
    /\ returns' = Append(returns, row)
    /\ UNCHANGED <<orders, settlements, history, monthly_reconciliation,
                   status_history, scan_result, master, resolverVars>>

CheckDataConsistency ==
    /\ scan_result' = [kind |-> "issues",
                       issues |-> check_data_consistency(orders, returns, settlements)]
    /\ UNCHANGED <<orders, returns, settlements, history, monthly_reconciliation,
                   status_history, master, resolverVars>>

IdentifyAnomalies ==
    /\ scan_result' = [kind |-> "anomalies",
                       anomalies |-> identify_anomalies(returns, settlements)]
    /\ UNCHANGED <<orders, returns, settlements, history, monthly_reconciliation,
                   status_history, master, resolverVars>>

NextScan ==
    \/ \E row \in ScanReturnRows : StoreReturn(row)
    \/ CheckDataConsistency
    \/ IdentifyAnomalies

SpecScan == InitScan /\ [][NextScan]_vars

----------------------------------------------------------------------------
(* Master files: process_file of src/src/ingestion.py, called for every    *)
(* file of the data directory by process_data_files of src/src/run.py.  A  *)
(* file has a name and rows; a cell of a numeric column is the text of the *)
(* file.  The file has the required columns; the ingestion_timestamp       *)
(* column is left out.                                                     *)

MaxFileRows == 2

\* pd.to_numeric(errors='coerce') and the text to_csv writes for the value:
\* a number in the float formatting of pandas, nothing for a text that is
\* no number.
ToNumeric(cell) ==
    CASE cell = "999.50" -> "999.5"
      [] cell = "abc" -> ""
      [] OTHER -> cell

\* The frame of a file: source_file is added, the numeric columns are
\* converted.
Frame(file) ==
    [i \in DOMAIN file.rows |->
        [order_release_id |-> file.rows[i].order_release_id,
         amount |-> ToNumeric(file.rows[i].amount),
         source_file |-> file.name]]

\* The master after a file: the rows of the same source file are removed,
\* the frame is appended; without a master the frame is the master.
UpdateMaster_KeepSameSource(master_df, file) ==
    master_df \o Frame(file)

UpdateMaster(master_df, file) ==
    SelectSeq(master_df, LAMBDA r : r.source_file # file.name) \o Frame(file)

FileTypes == {"orders", "returns", "settlement"}

FileNames == {"a.csv", "b.csv"}

FileRows == [order_release_id : {"O1"}, amount : {"999.50", "abc"}]

Files == [name : FileNames, rows : SeqsUpTo(FileRows, MaxFileRows)]

\* The files of returns and of settlements: one name, at most one row.
SmallFiles == [name : {"a.csv"},
               rows : {<<>>, <<[order_release_id |-> "O1", amount |-> "999.50"]>>}]

\* process_file: process_orders_file, process_returns_file or
\* process_settlement_file by the type of the file.
ProcessFile(file, file_type) ==
    /\ master' = [master EXCEPT ![file_type] = UpdateMaster(master[file_type], file)]
    /\ UNCHANGED <<orders, returns, settlements, history, monthly_reconciliation,
                   status_history, scan_result, resolverVars>>

NextMaster ==
    \/ \E file \in Files : ProcessFile(file, "orders")
    \/ \E file \in SmallFiles, file_type \in FileTypes \ {"orders"} :
           ProcessFile(file, file_type)

SpecMaster == Init /\ [][NextMaster]_vars

----------------------------------------------------------------------------
(* Claims about the status resolver, checked under SpecResolver *)

\* The rows of a frame that reference the order under analysis.
MatchingReturns == FilterById(returns_df, order.order_release_id)
MatchingSettlements == FilterById(settlement_df, order.order_release_id)

\* The cancellation flag of the order under analysis is set.
FlagSet == "is_ship_rel" \in DOMAIN order /\ order.is_ship_rel = 0

\* The previous status of the order under analysis is known: there is a
\* previous analysis and it has a row of the order.
PreviousKnown ==
    /\ previous_analysis # <<>>
    /\ \E i \in DOMAIN previous_analysis[1] :
           previous_analysis[1][i].order_release_id = order.order_release_id

\* C1: an order whose cancellation flag is set resolves to Cancelled with
\* profit_loss 0, whatever return and settlement rows reference it.
C1_CancelledTakesPrecedence ==
    FlagSet =>
        \A k \in DOMAIN results :
            /\ results[k].status = "Cancelled"
            /\ results[k].profit_loss = 0

\* C1 witness: a cancelled order with a matching return row and a matching
\* settlement row has been resolved.
C1_Witness ==
    /\ FlagSet
    /\ MatchingReturns # <<>>
    /\ MatchingSettlements # <<>>
    /\ results # <<>>

\* C2: a non-cancelled order with a matching return row resolves to Returned,
\* return_settlement and order_settlement are the sums over all matching rows,
\* and profit_loss = order_settlement - |return_settlement|.
C2_ReturnedSubtractsMagnitude ==
    (~FlagSet /\ MatchingReturns # <<>>) =>
        \A k \in DOMAIN results :
            /\ results[k].status = "Returned"
            /\ results[k].return_settlement = SumActual(MatchingReturns)
            /\ results[k].order_settlement = SumActual(MatchingSettlements)
            /\ results[k].profit_loss =
                   SumActual(MatchingSettlements) - Abs(SumActual(MatchingReturns))

\* C3: a non-cancelled order without a matching return row resolves to
\* Completed - Settled with profit_loss the sum of the matching settlements
\* when a settlement row matches, and to Completed - Pending Settlement with
\* profit_loss 0 when none does, whatever its final_amount.
C3_CompletedSettledOrPending ==
    (~FlagSet /\ MatchingReturns = <<>>) =>
        \A k \in DOMAIN results :
            IF MatchingSettlements # <<>>
            THEN /\ results[k].status = "Completed - Settled"
                 /\ results[k].profit_loss = SumActual(MatchingSettlements)
            ELSE /\ results[k].status = "Completed - Pending Settlement"
                 /\ results[k].profit_loss = 0

\* C3 witness: an order with final_amount 1000.00, no matching return and no
\* matching settlement, among rows of another order, has been resolved.
C3_Witness ==
    /\ ~FlagSet
    /\ order.final_amount = 100000
    /\ MatchingReturns = <<>> /\ returns_df # <<>>
    /\ MatchingSettlements = <<>> /\ settlement_df # <<>>
    /\ results # <<>>

\* C4: status_changed is true exactly when a previous status is known and
\* differs from the computed status, and the change timestamp is set exactly
\* when status_changed is true.
C4_StatusChangedIffKnownAndDifferent ==
    \A k \in DOMAIN results :
        /\ results[k].status_changed_this_run =
               (/\ PreviousKnown
                /\ LET rows == FilterById(previous_analysis[1], order.order_release_id)
                   IN  rows[Len(rows)].status # results[k].status)
        /\ (results[k].settlement_update_run_timestamp # NoTimestamp) =
               results[k].status_changed_this_run

\* C4 witness: an order without a row in the previous analysis (first seen in
\* this run) has been resolved and is not reported as changed.
C4_Witness ==
    /\ previous_analysis # <<>>
    /\ previous_analysis[1] # <<>>
    /\ ~PreviousKnown
    /\ results # <<>>
    /\ ~results[1].status_changed_this_run

\* C5: two calls of the resolver with the same inputs and the same previous
\* status return the same result in every field, whatever the clock reads.
C5_SameInputsSameResult ==
    \A j, k \in DOMAIN results : results[j] = results[k]

----------------------------------------------------------------------------
(* Claims about the settlement store, checked under Spec *)

\* The Order a stored settlement belongs to.
OrderOf(s) == orders[FirstIndex(orders, s.order_release_id)]

\* update_settlement has written the settlement.
Tracked(s) == "amount_settled" \in DOMAIN s

\* The three-way rule of the specification.
RuleStatus(amount_settled, amount_pending) ==
    IF amount_pending = 0 THEN "completed"
    ELSE IF amount_settled > 0 /\ amount_pending > 0 THEN "partial"
    ELSE "pending"

\* The status and the settled amount stored on a settlement are those of t.
SameStatusAndAmount(s, t) ==
    /\ s.status = t.status
    /\ s.total_actual_settlement = t.total_actual_settlement
    /\ Tracked(s) = Tracked(t)
    /\ Tracked(s) => /\ s.settlement_status = t.settlement_status
                     /\ s.amount_settled = t.amount_settled

\* C6: the history grows only at a step that changed the status or the
\* settled amount of a settlement: a delivery or update that leaves both as
\* stored appends no SettlementHistory entry.
C6_NoHistoryWithoutChange ==
    [][(/\ Len(settlements') = Len(settlements)
        /\ \A i \in DOMAIN settlements : SameStatusAndAmount(settlements[i], settlements'[i]))
       => history' = history]_vars

\* C7: for a stored order without return rows and without a Settlement, the
\* arrival of a settlement row settled in full (amount_pending 0) creates
\* the order's Settlement with status completed and adds one history entry.
C7_FirstFullSettlementCompletes ==
    \A row \in SettlementFeedRows :
        (/\ row.total_actual_settlement = row.total_expected_settlement
         /\ row.amount_pending_settlement = 0
         /\ OrderExists(orders, row.order_release_id)
         /\ ~OrderExists(returns, row.order_release_id)
         /\ ~OrderExists(settlements, row.order_release_id))
        => LET after == SettlementsStage(<<row>>, orders, returns, settlements, history, now)
           IN  /\ \E i \in DOMAIN after.settlements :
                      /\ after.settlements[i].order_release_id = row.order_release_id
                      /\ after.settlements[i].status = "completed"
               /\ Len(after.history) = Len(history) + 1

\* C8: the status of every stored Settlement is pending, partial or
\* completed, and it is the three-way rule applied to the record's amounts.
C8_StatusFollowsRule ==
    \A i \in DOMAIN settlements :
        LET s == settlements[i]
        IN  /\ s.status \in {"pending", "partial", "completed"}
            /\ s.status = RuleStatus(s.total_actual_settlement, s.amount_pending_settlement)
            /\ Tracked(s) =>
                   /\ s.settlement_status \in {"pending", "partial", "completed"}
                   /\ s.settlement_status = RuleStatus(s.amount_settled, s.amount_pending)

C10_PendingNonNegative ==
    \A i \in DOMAIN settlements :
        LET s == settlements[i]
        IN  /\ s.amount_pending_settlement >= 0
            /\ Tracked(s) => s.amount_pending >= 0

\* The stored settlements of an order.
SettlementsOf(tbl, order_id) == {i \in DOMAIN tbl : tbl[i].order_release_id = order_id}

\* C11: when one settlement batch holds two rows of the same order (the
\* order and a return of it are stored, so that both rows are applied), then
\* after the batch there is exactly one Settlement of the order, its amounts
\* are those of the later row, and each row produced its own history entry.
C11_SameKeyTwiceInBatch ==
    \A row1, row2 \in SettlementFeedRows :
        (/\ row1.order_release_id = row2.order_release_id
         /\ OrderExists(orders, row1.order_release_id)
         /\ OrderExists(returns, row1.order_release_id))
        => LET after == SettlementsStage(<<row1, row2>>, orders, returns,
                                         settlements, history, now)
               mine == SettlementsOf(after.settlements, row2.order_release_id)
           IN  /\ Cardinality(mine) = 1
               /\ \A i \in mine :
                      /\ after.settlements[i].total_actual_settlement =
                             row2.total_actual_settlement
                      /\ after.settlements[i].amount_pending_settlement =
                             row2.amount_pending_settlement
               /\ Len(after.history) = Len(history) + 2

C15_OrphanStillStored ==
    /\ \A row \in ReturnFeedRows :
           ~OrderExists(orders, row.order_release_id)
           => OrderExists(ReturnsStage(<<row>>, orders, returns), row.order_release_id)
    /\ \A row \in SettlementFeedRows :
           ~OrderExists(orders, row.order_release_id)
           => OrderExists(SettlementsStage(<<row>>, orders, returns, settlements,
                                           history, now).settlements,
                          row.order_release_id)

\* C20: the store holds at most one Order per order_release_id, and after an
\* order row is ingested the stored Order of its id has the content of that
\* row, also when the id was stored before with another content.
C20_ReingestOverwrites ==
    /\ \A i, j \in DOMAIN orders :
           orders[i].order_release_id = orders[j].order_release_id => i = j
    /\ \A row \in [order_release_id : OrderIds, final_amount : {100000, 50000}] :
           LET after == OrdersStage(<<row>>, orders)
               mine == SettlementsOf(after, row.order_release_id)
           IN  /\ Cardinality(mine) = 1
               /\ \A i \in mine : after[i].final_amount = row.final_amount

----------------------------------------------------------------------------
(* Claims about the monthly processing, checked under SpecMonthly *)

\* The months the clock can read.
ClockMonths == 0..MaxClock

\* The month a stored settlement was created in, and the month its order is
\* dated in.
SettlementMonth(s) == s.created_at
OrderMonth(s) == OrderOf(s).created_on

\* C12: an update that resolves to pending on a Settlement whose month
\* differs from the month of its Order writes two history entries, the
\* first tagged with the Settlement's month, the second with the Order's.
C12_CarryForwardEntry ==
    [][\A i \in DOMAIN settlements :
          (/\ Len(history') > Len(history)
           /\ history'[Len(history) + 1].order_release_id =
                  settlements[i].order_release_id
           /\ history'[Len(history) + 1].settlement_status = "pending"
           /\ SettlementMonth(settlements[i]) # OrderMonth(settlements[i]))
          => /\ Len(history') = Len(history) + 2
             /\ history'[Len(history) + 1].month = <<SettlementMonth(settlements[i])>>
             /\ history'[Len(history) + 2].month = <<OrderMonth(settlements[i])>>]_vars

\* The months whose rollup, settlement analysis and history trends count
\* the stored settlement i in their pending totals.
RollupMonthsOf(i) == {m \in ClockMonths : CreatedIn(settlements[i], m)}
AnalysisMonthsOf(i) ==
    {m \in ClockMonths :
        \E k \in DOMAIN AnalysisSettlements(settlements, m) :
            AnalysisSettlements(settlements, m)[k] = settlements[i]}
TrendMonthsOf(i) ==
    {m \in ClockMonths :
        \E k \in DOMAIN TrendRows(history, m) :
            TrendRows(history, m)[k].order_release_id = settlements[i].order_release_id}

RollupRowsOf(tbl, month) == {i \in DOMAIN tbl : tbl[i].month = month}

\* C16: when the monthly processing is run again for a month whose rollup
\* is stored, with a settlements file only (a late settlement), the store
\* afterwards holds exactly one rollup row of the month and its values are
\* those computed from the store as it is after the run.
C16_RerunReplacesRollup ==
    \A month \in Months, settlements_file \in MonthlySettlementFiles :
        HasMonth(monthly_reconciliation, month)
        => LET after == process_files(DB, <<>>, <<>>, settlements_file, month, now)
               mine == RollupRowsOf(after.monthly_reconciliation, month)
           IN  /\ Cardinality(mine) = 1
               /\ \A i \in mine :
                      after.monthly_reconciliation[i] =
                          calculate_monthly_reconciliation(
                              after.orders, after.returns, after.settlements, month)

\* sum of |total_actual_settlement| over the rows with a negative one
RECURSIVE SumNegativeMagnitudes(_)
SumNegativeMagnitudes(df) ==
    IF df = <<>> THEN 0
    ELSE (IF Head(df).total_actual_settlement < 0
          THEN -Head(df).total_actual_settlement ELSE 0)
         + SumNegativeMagnitudes(Tail(df))

\* C17: for every month the rollup has total_settlements = the sum of the
\* positive settled amounts of the month's settlements, pending_settlements
\* = the sum of their pending amounts, completed_settlements = the sum of
\* the settled amounts of the month's fully settled settlements,
\* return_losses = the sum of |amount| over the month's settlements and
\* returns with a negative actual settlement, and net_profit =
\* total_settlements - return_losses.
C17_RollupFormulas ==
    \A month \in Months :
        LET r == calculate_monthly_reconciliation(orders, returns, settlements, month)
            ss == SelectSeq(settlements, LAMBDA s : SettlementMonth(s) = month)
            rs == InMonth(returns, "return_date", month)
        IN  /\ r.total_settlements =
                   SumActual(SelectSeq(ss, LAMBDA s : s.total_actual_settlement > 0))
            /\ r.pending_settlements = SumPending(ss)
            /\ r.completed_settlements =
                   SumActual(SelectSeq(ss, LAMBDA s : s.status \in {"completed", "settled"}))
            /\ r.return_losses = SumNegativeMagnitudes(ss) + SumNegativeMagnitudes(rs)
            /\ r.net_profit = r.total_settlements - r.return_losses

\* The sum over the orders of a frame of the resolver's order_settlement
\* minus |return_settlement|.
RECURSIVE SumResolved(_, _, _)
SumResolved(ords, rets, tbl) ==
    IF ords = <<>> THEN 0
    ELSE LET res == determine_order_status_and_financials(Head(ords), rets, tbl, None, 0)
         IN  res.order_settlement - Abs(res.return_settlement)
             + SumResolved(Tail(ords), rets, tbl)

\* C18: for the orders dated in a month, with their returns and settlements,
\* the sum of the resolver's order_settlement minus the sum of
\* |return_settlement| equals the net_profit the rollup of that month
\* computes over the same orders, returns and settlements.
C18_MonthlyAdditivity ==
    \A month \in Months :
        LET ords == InMonth(orders, "created_on", month)
            rets == SelectSeq(returns, LAMBDA r : OrderExists(ords, r.order_release_id))
            tbl == SelectSeq(settlements, LAMBDA s : OrderExists(ords, s.order_release_id))
        IN  SumResolved(ords, rets, tbl) =
                calculate_monthly_reconciliation(ords, rets, tbl, month).net_profit

\* C19: for every month the rollup's total_returns is <= its total_orders.
C19_ReturnsAtMostOrders ==
    \A month \in Months :
        LET r == calculate_monthly_reconciliation(orders, returns, settlements, month)
        IN  r.total_returns <= r.total_orders

----------------------------------------------------------------------------
(* Claims about the database import, checked under SpecImport *)

\* C21: ingesting a return whose (order_release_id, order_line_id) already
\* has a stored Return adds a new Return row and leaves the rows stored
\* before unchanged.
C21_ReturnForStoredKeyAddsRow ==
    \A row \in ImportReturnRows :
        (/\ row.defect = "none"
         /\ \E j \in DOMAIN returns : SameKey("returns", returns[j], row))
        => LET after == upsert_returns(<<row>>, orders, returns).tbl
           IN  /\ Len(after) = Len(returns) + 1
               /\ SubSeq(after, 1, Len(returns)) = returns
               /\ after[Len(after)] = ReturnData(row)

\* The rows of a table with the key of a row.
StoredWithKey(table, tbl, data) ==
    {j \in DOMAIN tbl : SameKey(table, tbl[j], data)}

\* C23: a malformed order row is rejected alone: upsert_orders does not
\* raise, every well-formed row of the file is stored after the call, and a
\* malformed row stores nothing.
C23_MalformedOrderRejectedAlone ==
    \A df \in ImportOrderFiles :
        LET r == upsert_orders(df, orders)
        IN  /\ ~r.raised
            /\ \A k \in DOMAIN df :
                   df[k].defect = "none"
                   => StoredWithKey("orders", r.tbl, df[k]) # {}
            /\ \A k \in DOMAIN df :
                   (/\ df[k].defect # "none"
                    /\ StoredWithKey("orders", orders, df[k]) = {}
                    /\ \A m \in DOMAIN df :
                           df[m].defect = "none" => ~SameKey("orders", df[m], df[k]))
                   => StoredWithKey("orders", r.tbl, df[k]) = {}

\* The statuses recorded for an order, oldest first.
StatusesOf(hist, id) ==
    SelectSeq(hist, LAMBDA h : h.order_release_id = id)

\* C25: in the database import the most recent status in the status history
\* of a stored order with is_ship_rel = 0 is "Cancelled", also after returns
\* and settlements of the order were imported.
C25_CancelledStaysLatest ==
    \A i \in DOMAIN orders :
        orders[i].is_ship_rel = 0
        => LET mine == StatusesOf(status_history, orders[i].order_release_id)
           IN  mine # <<>> /\ mine[Len(mine)].status = "Cancelled"

\* C29: every id an upsert function returns belongs to a row that is stored
\* after the call: the rows executed before a failing row are not lost by
\* the rollback of the failing row.
C29_ProcessedIdsPersisted ==
    /\ \A df \in ImportOrderFiles :
           LET r == upsert_orders(df, orders)
           IN  ~r.raised => \A k \in DOMAIN r.processed :
                   StoredWithKey("orders", r.tbl, r.processed[k]) # {}
    /\ \A df \in ImportReturnFiles :
           LET r == upsert_returns(df, orders, returns)
           IN  ~r.raised => \A k \in DOMAIN r.processed :
                   StoredWithKey("returns", r.tbl, r.processed[k]) # {}
    /\ \A df \in ImportSettlementFiles :
           LET r == upsert_settlements(df, orders, settlements)
           IN  ~r.raised => \A k \in DOMAIN r.processed :
                   StoredWithKey("settlements", r.tbl, r.processed[k]) # {}

----------------------------------------------------------------------------
(* Claims about the deletion of records, checked under SpecDelete *)

\* C22: no operation changes or removes a stored SettlementHistory entry:
\* after every step, updates and deletions of Settlement and Order records
\* included, every entry stored before is stored with the same content.
C22_HistoryEntriesKept ==
    [][\A i \in DOMAIN history :
           i \in DOMAIN history' /\ history'[i] = history[i]]_vars

----------------------------------------------------------------------------
(* Claims about a failed run of process_files, checked under SpecMonthly *)

\* C24: when a call of process_files fails part-way, a retry with the same
\* files succeeds whenever a run on the state before the failed attempt
\* would have succeeded, and ends in the state that run would have ended in.
C24_RetryAfterFailure ==
    \A odf \in MonthlyOrderFiles, rdf \in MonthlyReturnFiles,
       sdf \in MonthlySettlementFiles, month \in Months, fault \in Faults :
        LET clean == process_files_attempt(DB, odf, rdf, sdf, month, now, "none")
            failed == process_files_attempt(DB, odf, rdf, sdf, month, now, fault)
            retry == process_files_attempt(failed.db, odf, rdf, sdf, month, now, "none")
        IN  (failed.raised /\ ~clean.raised)
            => (~retry.raised /\ retry.db = clean.db)

\* process_files_attempt without a fault is process_files.
C24_AttemptIsProcessFiles ==
    \A odf \in MonthlyOrderFiles, rdf \in MonthlyReturnFiles,
       sdf \in MonthlySettlementFiles, month \in Months :
        process_files_attempt(DB, odf, rdf, sdf, month, now, "none").db
            = process_files(DB, odf, rdf, sdf, month, now)

----------------------------------------------------------------------------
(* Claims about the scans, checked under SpecScan *)

\* The details of the issues of a type.
DetailsOf(issues, types) ==
    {d \in UNION {{i.details[k] : k \in DOMAIN i.details} :
                     i \in {issues[j] : j \in DOMAIN issues}} :
        \E j \in DOMAIN issues :
            /\ issues[j].type \in types
            /\ \E k \in DOMAIN issues[j].details : issues[j].details[k] = d}

\* C26: the scan reports a Settlement as settlement_mismatch exactly when
\* |settled + pending - expected| is larger than 0.01 (one hundredth): a
\* difference within the tolerance is not reported, and 500 with 600 against
\* 1000 is reported.
C26_MismatchOutsideTolerance ==
    scan_result.kind = "issues"
    => \A i \in DOMAIN settlements :
           LET s == settlements[i]
           IN  (s \in DetailsOf(scan_result.issues, {"settlement_mismatch"}))
               <=> Abs(s.total_actual_settlement + s.amount_pending_settlement
                       - s.total_expected_settlement) > 1

\* C27: the scan reports an orphan finding for every stored Return and every
\* stored Settlement whose order_release_id matches no Order, and for no
\* other record.
C27_OrphansReported ==
    LET issues == check_data_consistency(orders, returns, settlements)
        found == {d.order_release_id :
                     d \in DetailsOf(issues, {"orphaned_record", "orphaned_returns",
                                              "orphaned_settlements"})}
    IN  /\ \A i \in DOMAIN returns :
               returns[i].order_release_id \in found
               <=> ~OrderExists(orders, returns[i].order_release_id)
        /\ \A i \in DOMAIN settlements :
               settlements[i].order_release_id \in found
               <=> ~OrderExists(orders, settlements[i].order_release_id)

\* The finding of a return in the high_value_returns of a scan.
HighValueFinding(r) ==
    [order_id |-> r.order_release_id, amount |-> r.customer_paid_amount]

ReportedHighValue(anomalies, r) ==
    \E k \in DOMAIN anomalies.high_value_returns :
        anomalies.high_value_returns[k] = HighValueFinding(r)

\* C28: a scan reports a return as high value exactly when its
\* customer_paid_amount is greater than twice the mean customer_paid_amount
\* over all returns stored at the time of that scan, and reports nothing
\* else; the mean is that of the table the scan reads.
C28_HighValueIffAboveTwiceMean ==
    [][(scan_result' # scan_result /\ scan_result'.kind = "anomalies")
       => /\ \A i \in DOMAIN returns :
                 ReportedHighValue(scan_result'.anomalies, returns[i])
                 <=> returns[i].customer_paid_amount * Len(returns)
                         > 2 * SumPaid(returns)
          /\ \A k \in DOMAIN scan_result'.anomalies.high_value_returns :
                 \E i \in DOMAIN returns :
                     scan_result'.anomalies.high_value_returns[k]
                         = HighValueFinding(returns[i])]_vars

\* A scan has reported the first return, a return was added, and the scan of
\* the table as it is now does not report the first return.
C28_Witness ==
    /\ scan_result.kind = "anomalies"
    /\ Len(returns) >= 2
    /\ scan_result.anomalies = identify_anomalies(returns, settlements)
    /\ ~ReportedHighValue(scan_result.anomalies, returns[1])
    /\ ReportedHighValue(
           identify_anomalies(SubSeq(returns, 1, Len(returns) - 1), settlements),
           returns[1])

----------------------------------------------------------------------------
(* Claims about the master files, checked under SpecMaster *)

\* The rows of a master with a source file, and the rows of the others.
FromSource(master_df, name) == SelectSeq(master_df, LAMBDA r : r.source_file = name)
FromOthers(master_df, name) == SelectSeq(master_df, LAMBDA r : r.source_file # name)

\* A row of a file as the master keeps it.
Tagged(row, name) ==
    [order_release_id |-> row.order_release_id,
     amount |-> IF row.amount = "abc" THEN "" ELSE "999.5",
     source_file |-> name]

====
